---- MODULE Spec2Model ----
(***************************************************************************)
(* Model of socialscraper.py: the bounded per-site crawl (crawl_site), its *)
(* helpers (fetch, extract_links_from_html, is_social_link) and the batch  *)
(* loop (process_websites).                                                *)
(*                                                                         *)
(* A URL string is represented by the record urlparse would split it into: *)
(*   scheme   the text before ":" ("" when absent)                         *)
(*   netloc   the text between "//" and the next "/", as a sequence of     *)
(*            tokens (<<>> when absent); the tokens are chosen so that an  *)
(*            occurrence of "www.", "facebook.com", "instagram.com" or     *)
(*            "site.com" in the string is an occurrence of the same        *)
(*            tokens in the sequence                                       *)
(*   path     the path segments                                            *)
(*   abs      TRUE when the path starts with "/"                           *)
(* The representation is one-to-one on the strings used here, so equality  *)
(* of records is equality of URL strings.                                  *)
(***************************************************************************)
EXTENDS Integers, Sequences, FiniteSets, TLC

VARIABLES businesses, site,
          pc, i, results, progress, status_text, error,
          base_url, biz_name, visited, to_visit, social_links, base_domain,
          pages_crawled, status_code, next_url, links, pending,
          fetched, outcomes

vars == << businesses, site, pc, i, results, progress, status_text, error,
           base_url, biz_name, visited, to_visit, social_links, base_domain,
           pages_crawled, status_code, next_url, links, pending,
           fetched, outcomes >>

-----------------------------------------------------------------------------
(* Bounds of the model *)

MaxTargets == 2
MaxAnchors == 2

(* Program constants *)

max_pages == 3
FrontierCap == 10
HttpOk == 200

-----------------------------------------------------------------------------
(* URL strings *)

Url(s, n, p, a) == [scheme |-> s, netloc |-> n, path |-> p, abs |-> a]

NotFound == Url("", <<>>, <<"Not Found">>, FALSE)      \* the string "Not Found"
NoneUrl == Url("", <<>>, <<>>, FALSE)                  \* the string ""

Root == Url("https", <<"site.com">>, <<>>, FALSE)      \* https://site.com
NoSchemeRoot == Url("", <<>>, <<"site.com">>, FALSE)   \* site.com
BadRoot == Url("http", <<"[", "site.com">>, <<>>, FALSE)   \* http://[site.com

hAbout == Url("", <<>>, <<"about">>, TRUE)             \* /about
hBlog == Url("", <<>>, <<"blog", "post">>, TRUE)       \* /blog/post
hNext == Url("", <<>>, <<"next">>, FALSE)              \* next
hRoot == Root                                          \* https://site.com
hShop == Url("https", <<"shop.", "site.com">>, <<>>, FALSE)   \* https://shop.site.com
hFb1 == Url("https", <<"www.", "face", "book.com">>, <<"acme">>, TRUE)
hFb2 == Url("https", <<"m.", "Face", "book.com">>, <<"x">>, TRUE)
hIg == Url("https", <<"instagram.com">>, <<"acme">>, TRUE)
hTw == Url("https", <<"twitter.com">>, <<"x">>, TRUE)
hBad == Url("http", <<"[", "bad">>, <<>>, FALSE)       \* http://[bad
hFw == Url("https", <<"face", "www.", "book.com">>, <<"x">>, TRUE)   \* https://facewww.book.com/x

Front(s) == IF s = <<>> THEN <<>> ELSE SubSeq(s, 1, Len(s) - 1)

Range(s) == { s[k] : k \in 1..Len(s) }

(* urlparse raises ValueError("Invalid IPv6 URL") on an unbalanced bracket *)
urlparse_raises(url) == "[" \in Range(url.netloc) /\ "]" \notin Range(url.netloc)

(* str.lower() on the tokens of a string *)
lower_token(t) ==
    CASE t = "WWW." -> "www."
      [] t = "Face" -> "face"
      [] t = "Book.com" -> "book.com"
      [] t = "Instagram.com" -> "instagram.com"
      [] t = "HTTPS" -> "https"
      [] OTHER -> t

lower(url) == [ url EXCEPT !.scheme = lower_token(@),
                           !.netloc = [ k \in 1..Len(@) |-> lower_token(@[k]) ] ]

(* Python's  sub in s  on token sequences *)
Contains(s, sub) ==
    \E k \in 1..(Len(s) + 1) :
        /\ k + Len(sub) - 1 <= Len(s)
        /\ SubSeq(s, k, k + Len(sub) - 1) = sub

(* str.replace(old, ""): every occurrence of the token is deleted *)
replace_all(s, old) == SelectSeq(s, LAMBDA t : t # old)

(* urllib.parse.urljoin for the reference shapes above (no dot segments) *)
urljoin(base, url) ==
    IF url = NoneUrl THEN base
    ELSE IF url.scheme # "" /\ url.scheme # base.scheme THEN url
    ELSE IF url.netloc # <<>> THEN [ url EXCEPT !.scheme = base.scheme ]
    ELSE
        [ scheme |-> base.scheme,
          netloc |-> base.netloc,
          path |-> IF url.abs THEN url.path ELSE Front(base.path) \o url.path,
          abs |-> url.abs \/ base.netloc # <<>> ]

-----------------------------------------------------------------------------
(* SOCIAL_DOMAINS, in dict order *)

SOCIAL_DOMAINS ==
    << [domain |-> <<"face", "book.com">>, platform |-> "Facebook"],
       [domain |-> <<"instagram.com">>, platform |-> "Instagram"] >>

Platforms == { SOCIAL_DOMAINS[k].platform : k \in 1..Len(SOCIAL_DOMAINS) }

None == "None"

(* is_social_link, for a url on which urlparse does not raise *)
is_social_link(url) ==
    LET parsed == lower(url)
        domain == replace_all(parsed.netloc, "www.")
        hits == { k \in 1..Len(SOCIAL_DOMAINS) : Contains(domain, SOCIAL_DOMAINS[k].domain) }
    IN  IF hits = {} THEN None
        ELSE SOCIAL_DOMAINS[CHOOSE k \in hits : \A m \in hits : k <= m].platform

(* extract_links_from_html: html is [nonempty, anchors], anchors the set of *)
(* href attributes of its <a> elements                                     *)
extract_raises(html, base) ==
    \E a \in html.anchors : urlparse_raises(base) \/ urlparse_raises(a)

extract_links_unresolved(html, base) == html.anchors

extract_links_from_html(html, base) == { urljoin(base, a) : a \in html.anchors }

-----------------------------------------------------------------------------
(* The web being crawled: what session.get may do for a URL.  A response   *)
(* is a transport error (the exception fetch catches) or an HTTP status    *)
(* with a body.                                                            *)

Doc(anchors) == [nonempty |-> TRUE, anchors |-> anchors]
EmptyHtml == [nonempty |-> FALSE, anchors |-> {}]

TransportError == [err |-> TRUE, status |-> 0, body |-> EmptyHtml]
Http(status, body) == [err |-> FALSE, status |-> status, body |-> body]

CoreHrefs == { hAbout, hBlog, hNext, hRoot, hShop, hFb1, hFb2, hIg, hTw, hBad }

OpenAnchorSets == { S \in SUBSET CoreHrefs : Cardinality(S) <= MaxAnchors }

(* a page with both platforms, two links of one platform and a site link *)
HomeDoc == Doc({hAbout, hFb1, hFb2, hIg})

PageName == << "p1", "p2", "p3", "p4", "p5", "p6", "p7", "p8", "p9", "p10", "p11", "p12" >>
BulkCount == FrontierCap + 1
BulkHrefs == { Url("", <<>>, <<PageName[n]>>, TRUE) : n \in 1..BulkCount }

AboutUrl == urljoin(Root, hAbout)

OpenSite == [kind |-> "open", fb |-> NotFound]
BulkSite == [kind |-> "bulk", fb |-> NotFound]
SmallSite == [kind |-> "small", fb |-> NotFound]
TwoPageSite(fb) == [kind |-> "twopage", fb |-> fb]

(* session.get raises for a URL that is not an absolute http(s) URL *)
CanRequest(url) ==
    /\ lower_token(url.scheme) \in {"http", "https"}
    /\ url.netloc # <<>>
    /\ ~urlparse_raises(url)

Responses(s, url) ==
    IF ~CanRequest(url) THEN { TransportError }
    ELSE CASE s.kind = "open" ->
                { TransportError, Http(404, Doc({hFb1, hAbout})), Http(HttpOk, EmptyHtml),
                  Http(HttpOk, HomeDoc) }
                \cup { Http(HttpOk, Doc(S)) : S \in OpenAnchorSets }
           [] s.kind = "twopage" ->
                IF url = Root
                THEN { TransportError }
                     \cup { Http(HttpOk, Doc({hAbout} \cup X)) : X \in SUBSET {hTw} }
                ELSE IF url = AboutUrl
                THEN { TransportError, Http(404, EmptyHtml) }
                     \cup { Http(HttpOk, Doc({s.fb} \cup X)) : X \in SUBSET {hRoot, hAbout, hTw} }
                ELSE { TransportError }
           [] s.kind = "bulk" ->
                IF url = Root
                THEN { Http(HttpOk, Doc(BulkHrefs)) }
                ELSE { TransportError, Http(404, EmptyHtml), Http(HttpOk, Doc({hFb1, hRoot})),
                       Http(HttpOk, Doc({hFw, hTw})) }
           [] OTHER ->
                { TransportError, Http(HttpOk, Doc({hFb1, hIg})),
                  Http(HttpOk, Doc({hAbout})), Http(HttpOk, Doc({hBad})) }

fetch_error_status(r) ==
    IF r.err THEN [html |-> EmptyHtml, status |-> 500]
    ELSE IF r.status = HttpOk THEN [html |-> r.body, status |-> r.status]
    ELSE [html |-> EmptyHtml, status |-> r.status]

fetch_any_status(r) ==
    IF r.err THEN [html |-> EmptyHtml, status |-> 0]
    ELSE [html |-> r.body, status |-> r.status]

(* fetch: what the coroutine returns for a response *)
fetch(r) ==
    IF r.err THEN [html |-> EmptyHtml, status |-> 0]
    ELSE IF r.status = HttpOk THEN [html |-> r.body, status |-> r.status]
    ELSE [html |-> EmptyHtml, status |-> r.status]

-----------------------------------------------------------------------------
(* crawl_site *)

InitialFindings == [ p \in Platforms |-> NotFound ]

WhileCond_no_budget == to_visit # {}

WhileCond == to_visit # {} /\ pages_crawled < max_pages

BothFound_either == social_links["Facebook"] # NotFound \/ social_links["Instagram"] # NotFound

BothFound_typo == social_links["Facebook"] # NotFound /\ social_links["Instagram"] = NotFound

BothFound == social_links["Facebook"] # NotFound /\ social_links["Instagram"] # NotFound

VisitedAdd_forgotten(v, url) == v

VisitedAdd(v, url) == v \cup {url}

RecordFinding_wrong_key(sl, link) ==
    LET platform == is_social_link(link)
        other == IF platform = "Facebook" THEN "Instagram" ELSE "Facebook"
    IN  IF platform # None /\ sl[other] = NotFound
        THEN [ sl EXCEPT ![other] = link ]
        ELSE sl

RecordFinding_overwrite(sl, link) ==
    LET platform == is_social_link(link)
    IN  IF platform # None THEN [ sl EXCEPT ![platform] = link ] ELSE sl

(* lines 94-98: the findings after one link *)
RecordFinding(sl, link) ==
    LET platform == is_social_link(link)
    IN  IF platform # None /\ sl[platform] = NotFound
        THEN [ sl EXCEPT ![platform] = link ]
        ELSE sl

ShouldEnqueue_no_cap(link, bd, vis, tv) ==
    /\ Contains(link.netloc, bd)
    /\ link \notin vis

ShouldEnqueue_revisit(link, bd, vis, tv) ==
    /\ Contains(link.netloc, bd)
    /\ Cardinality(tv) < FrontierCap

(* line 103: the guard of to_visit.add(link) *)
ShouldEnqueue(link, bd, vis, tv) ==
    /\ Contains(link.netloc, bd)
    /\ link \notin vis
    /\ Cardinality(tv) < FrontierCap

(* lines 111-120, without the wall-clock fields *)
CrawlResult ==
    [ name |-> biz_name, website |-> base_url,
      Facebook |-> social_links["Facebook"], Instagram |-> social_links["Instagram"],
      status |-> status_code, pages |-> pages_crawled ]

ProgressReport == [done |-> i + 1, total |-> Len(businesses)]

(* return of crawl_site, then lines 129-130 of process_websites *)
Return ==
    /\ results' = Append(results, CrawlResult)
    /\ progress' = Append(progress, ProgressReport)
    /\ i' = i + 1
    /\ pc' = "pw_loop"
    /\ UNCHANGED << businesses, site, status_text, error, base_url, biz_name, visited,
                    to_visit, social_links, base_domain, pages_crawled, status_code,
                    next_url, links, pending, fetched, outcomes >>

(* process_websites lines 126-128 and crawl_site lines 59-69 *)
CrawlStart ==
    /\ pc = "pw_loop"
    /\ i < Len(businesses)
    /\ LET biz == businesses[i + 1]
       IN  /\ status_text' = [name |-> biz[1], k |-> i + 1, total |-> Len(businesses)]
           /\ biz_name' = biz[1]
           /\ base_url' = biz[2]
           /\ visited' = {}
           /\ to_visit' = { biz[2] }
           /\ social_links' = InitialFindings
           /\ IF urlparse_raises(biz[2])
              THEN /\ pc' = "raised"
                   /\ error' = "urlparse(base_url)"
                   /\ base_domain' = <<>>
              ELSE /\ pc' = "while"
                   /\ error' = error
                   /\ base_domain' = biz[2].netloc
    /\ pages_crawled' = 0
    /\ status_code' = 0
    /\ next_url' = NoneUrl
    /\ links' = {}
    /\ pending' = {}
    /\ fetched' = <<>>
    /\ outcomes' = <<>>
    /\ UNCHANGED << businesses, site, i, results, progress >>

(* line 71: the loop condition fails *)
LoopExit ==
    /\ pc = "while"
    /\ ~WhileCond
    /\ Return

(* lines 73-74 *)
Break ==
    /\ pc = "while"
    /\ WhileCond
    /\ BothFound
    /\ Return

(* lines 76-83, up to the await *)
Pop ==
    /\ pc = "while"
    /\ WhileCond
    /\ ~BothFound
    /\ \E url \in to_visit :
        /\ next_url' = url
        /\ to_visit' = to_visit \ {url}
        /\ IF url \in visited
           THEN /\ pc' = "while"
                /\ UNCHANGED << visited, pages_crawled, fetched >>
           ELSE /\ visited' = VisitedAdd(visited, url)
                /\ pages_crawled' = pages_crawled + 1
                /\ fetched' = Append(fetched, url)
                /\ pc' = "await_fetch"
    /\ UNCHANGED << businesses, site, i, results, progress, status_text, error, base_url,
                    biz_name, social_links, base_domain, status_code, links, pending,
                    outcomes >>

FirstStatus_every_page(status) == status

(* lines 84-85 *)
FirstStatus(status) == IF pages_crawled = 1 THEN status ELSE status_code

(* lines 83-88: the fetch returns no html *)
FetchSkip ==
    /\ pc = "await_fetch"
    /\ \E r \in Responses(site, next_url) :
        /\ ~fetch(r).html.nonempty
        /\ outcomes' = Append(outcomes, [err |-> r.err, status |-> r.status])
        /\ status_code' = FirstStatus(fetch(r).status)
    /\ pc' = "while"
    /\ UNCHANGED << businesses, site, i, results, progress, status_text, error, base_url,
                    biz_name, visited, to_visit, social_links, base_domain, pages_crawled,
                    next_url, links, pending, fetched >>

(* lines 83-90: the fetch returns html and the links are extracted *)
FetchPage ==
    /\ pc = "await_fetch"
    /\ \E r \in Responses(site, next_url) :
        /\ fetch(r).html.nonempty
        /\ outcomes' = Append(outcomes, [err |-> r.err, status |-> r.status])
        /\ status_code' = FirstStatus(fetch(r).status)
        /\ IF extract_raises(fetch(r).html, base_url)
           THEN /\ pc' = "raised"
                /\ error' = "urljoin(base_url, href)"
                /\ UNCHANGED << links, pending >>
           ELSE /\ links' = extract_links_from_html(fetch(r).html, base_url)
                /\ pending' = links'
                /\ pc' = IF links' = {} THEN "while" ELSE "for_links"
                /\ error' = error
    /\ UNCHANGED << businesses, site, i, results, progress, status_text, base_url,
                    biz_name, visited, to_visit, social_links, base_domain, pages_crawled,
                    next_url, fetched >>

(* lines 92-106: one iteration of  for link in links  (a set: any order).   *)
(* is_social_link (line 94) parses the link before the try of line 101, so *)
(* a link urlparse rejects raises out of the loop; for every other link    *)
(* the urlparse of line 102 succeeds and the except of line 105 is idle.   *)
ForLink ==
    /\ pc = "for_links"
    /\ \E link \in pending :
        /\ pending' = pending \ {link}
        /\ IF urlparse_raises(link)
           THEN /\ pc' = "raised"
                /\ error' = "is_social_link(link)"
                /\ UNCHANGED << social_links, to_visit >>
           ELSE /\ social_links' = RecordFinding(social_links, link)
                /\ to_visit' = IF ShouldEnqueue(link, base_domain, visited, to_visit)
                               THEN to_visit \cup {link}
                               ELSE to_visit
                /\ pc' = IF pending' = {} THEN "while" ELSE "for_links"
                /\ error' = error
    /\ UNCHANGED << businesses, site, i, results, progress, status_text, base_url,
                    biz_name, visited, base_domain, pages_crawled, status_code,
                    next_url, links, fetched, outcomes >>

(* process_websites line 131 *)
BatchDone ==
    /\ pc = "pw_loop"
    /\ i = Len(businesses)
    /\ pc' = "pw_done"
    /\ UNCHANGED << businesses, site, i, results, progress, status_text, error, base_url,
                    biz_name, visited, to_visit, social_links, base_domain, pages_crawled,
                    status_code, next_url, links, pending, fetched, outcomes >>

-----------------------------------------------------------------------------
(* The inputs: one target on a richly linked site, or a batch of targets   *)
(* (valid, scheme-less and unparseable root URLs) on a small site          *)

Targets == { <<"Acme", Root>>, <<"Bolt", NoSchemeRoot>>, <<"Crux", BadRoot>> }

Batches == UNION { [1..n -> Targets] : n \in 1..MaxTargets }

SingleSites == { OpenSite, BulkSite, TwoPageSite(hFb1), TwoPageSite(hFb2) }

Init ==
    /\ \/ businesses \in Batches /\ site = SmallSite
       \/ businesses = << <<"Acme", Root>> >> /\ site \in SingleSites
    /\ pc = "pw_loop"
    /\ i = 0
    /\ results = <<>>
    /\ progress = <<>>
    /\ status_text = [name |-> "", k |-> 0, total |-> 0]
    /\ error = ""
    /\ base_url = NoneUrl
    /\ biz_name = ""
    /\ visited = {}
    /\ to_visit = {}
    /\ social_links = InitialFindings
    /\ base_domain = <<>>
    /\ pages_crawled = 0
    /\ status_code = 0
    /\ next_url = NoneUrl
    /\ links = {}
    /\ pending = {}
    /\ fetched = <<>>
    /\ outcomes = <<>>

Next ==
    \/ CrawlStart
    \/ LoopExit
    \/ Break
    \/ Pop
    \/ FetchSkip
    \/ FetchPage
    \/ ForLink
    \/ BatchDone

Spec == Init /\ [][Next]_vars

(* run_until_complete drives the coroutine until it returns or raises, and *)
(* every fetch returns within its timeout (line 30): a step that can be    *)
(* taken is eventually taken                                               *)
FairSpec == Spec /\ WF_vars(Next)

-----------------------------------------------------------------------------
(* Properties *)

Found(p) == social_links[p] # NotFound

HasLinkOf(ls, p) == \E l \in ls : is_social_link(l) = p

Returned == pc \in {"pw_loop", "pw_done"} /\ i >= 1

LastResult == results[i]

(* C1: the page counter never exceeds max_pages, in the crawl and in every *)
(* Crawl Result                                                            *)
C1_PagesWithinBudget ==
    /\ pages_crawled <= max_pages
    /\ \A k \in 1..Len(results) : results[k].pages <= max_pages

(* the budget is spent while the frontier still holds URLs *)
C1_Witness ==
    /\ Returned
    /\ LastResult.pages = max_pages
    /\ to_visit # {}
    /\ ~BothFound

(* C2: the sequence of URLs passed to fetch in one crawl has no duplicates *)
C2_NoUrlFetchedTwice ==
    \A a, b \in 1..Len(fetched) : a # b => fetched[a] # fetched[b]

(* three pages fetched, the last one linking back to the root *)
C2_Witness ==
    /\ pc = "while"
    /\ Len(outcomes) = max_pages
    /\ ~outcomes[max_pages].err /\ outcomes[max_pages].status = HttpOk
    /\ Root \in links

(* C3: frontier and visited set are disjoint, visited holds every fetched  *)
(* URL, and every pop is followed by the fetch of the popped URL (the      *)
(* discard branch of line 77 is not taken)                                 *)
C3_FrontierDisjointFromVisited ==
    /\ [](/\ to_visit \cap visited = {}
          /\ Range(fetched) \subseteq visited)
    /\ [][ (pc = "while" /\ to_visit' # to_visit)
             => /\ pc' = "await_fetch"
                /\ fetched' = Append(fetched, next_url')
                /\ next_url' \in to_visit ]_vars

(* a fetched page links to an already visited URL while the crawl goes on *)
C3_Witness ==
    /\ pc = "while"
    /\ pages_crawled = 2
    /\ links \cap visited # {}
    /\ to_visit # {}

InvalidRoot(url) == ~CanRequest(url)

AllNotFound(r) == r.Facebook = NotFound /\ r.Instagram = NotFound

(* C4 (as claimed): for an invalid root URL crawl_site returns, and the    *)
(* result has zero pages crawled, status 0 and nothing found               *)
C4_InvalidRootZeroPages ==
    /\ ~(pc = "raised" /\ InvalidRoot(base_url) /\ fetched = <<>>)
    /\ \A k \in 1..Len(results) :
          InvalidRoot(results[k].website)
            => results[k].pages = 0 /\ results[k].status = 0 /\ AllNotFound(results[k])

(* C5 (as claimed): no target's invalid root URL aborts the batch, and the *)
(* returned list has one result per target, in input order                 *)
C5_BatchSurvivesBadTargets ==
    /\ ~(pc = "raised" /\ error = "urlparse(base_url)")
    /\ pc = "pw_done"
         => /\ Len(results) = Len(businesses)
            /\ \A k \in 1..Len(results) :
                  /\ results[k].name = businesses[k][1]
                  /\ results[k].website = businesses[k][2]

(* C6 (as claimed): once a page has been fetched, no link on it makes the  *)
(* crawl raise                                                             *)
C6_MalformedLinkNeverRaises ==
    pc = "raised" => fetched = <<>>

(* C7: with both platforms found no further fetch is issued, and no second *)
(* fetch follows a root page that links to both platforms                  *)
C7_StopsWhenBothFound ==
    [][ /\ (pc \in {"while", "for_links"} /\ BothFound)
           => (fetched' = fetched /\ pages_crawled' = pages_crawled)
        /\ (pc = "while" /\ pages_crawled = 1 /\ pages_crawled' # pages_crawled)
           => ~(HasLinkOf(links, "Facebook") /\ HasLinkOf(links, "Instagram")) ]_vars

(* the crawl returned after one page with both found, frontier not empty *)
C7_Witness ==
    /\ Returned
    /\ LastResult.pages = 1
    /\ LastResult.Facebook # NotFound /\ LastResult.Instagram # NotFound
    /\ to_visit # {}

(* C8: within a crawl a finding only changes from "Not Found", only to a   *)
(* link of that platform that the loop is processing, and a processed link *)
(* of a platform always leaves that platform found                         *)
C8_FirstFoundWins ==
    [][ pc # "pw_loop" =>
          \A p \in Platforms :
            /\ Found(p) => social_links'[p] = social_links[p]
            /\ social_links'[p] # social_links[p]
                 => /\ pc = "for_links"
                    /\ social_links'[p] \in pending \ pending'
                    /\ is_social_link(social_links'[p]) = p
            /\ (pc = "for_links" /\ pc' # "raised")
                 => \A l \in pending \ pending' :
                       is_social_link(l) = p => social_links'[p] # NotFound ]_vars

(* a later page carries another link of a platform that is already found *)
C8_Witness ==
    /\ pc = "while"
    /\ pages_crawled >= 2
    /\ pending = {}
    /\ ~outcomes[Len(outcomes)].err /\ outcomes[Len(outcomes)].status = HttpOk
    /\ \E l \in links : /\ is_social_link(l) = "Facebook"
                        /\ Found("Facebook")
                        /\ l # social_links["Facebook"]

(* C9: when the fetch of the root URL raised a transport error, the result *)
(* has status 0, one page crawled and nothing found                        *)
C9_RootTransportError ==
    (Returned /\ Len(outcomes) >= 1 /\ outcomes[1].err)
      => /\ LastResult.status = 0
         /\ LastResult.pages = 1
         /\ AllNotFound(LastResult)

(* a well-formed root URL whose fetch failed *)
C9_Witness ==
    /\ Returned
    /\ Len(outcomes) >= 1 /\ outcomes[1].err
    /\ CanRequest(LastResult.website)

(* C10: on the two-page site, both pages answering 200, the result is the  *)
(* Facebook link of page 2, no Instagram link and two pages crawled        *)
C10_TwoPageSite ==
    (/\ site.kind = "twopage"
     /\ Returned
     /\ Len(outcomes) >= 1
     /\ \A k \in 1..Len(outcomes) : ~outcomes[k].err /\ outcomes[k].status = HttpOk)
      => /\ LastResult.Facebook = site.fb
         /\ LastResult.Instagram = NotFound
         /\ LastResult.pages = 2

(* page 2 was fetched and links back to the root and to itself *)
C10_Witness ==
    /\ site.kind = "twopage"
    /\ Returned
    /\ Len(outcomes) = 2
    /\ \A k \in 1..Len(outcomes) : ~outcomes[k].err /\ outcomes[k].status = HttpOk
    /\ {Root, AboutUrl} \subseteq links
    /\ LastResult.Facebook = hFb2

(* C11: the findings have exactly one entry per catalog platform, and an   *)
(* entry other than "Not Found" is a URL that is_social_link maps to the   *)
(* platform it is stored under, in the crawl and in every Crawl Result     *)
C11_FindingsMatchPlatform ==
    /\ DOMAIN social_links = Platforms
    /\ \A p \in Platforms :
          /\ social_links[p] = NotFound \/ is_social_link(social_links[p]) = p
          /\ \A k \in 1..Len(results) :
                results[k][p] = NotFound \/ is_social_link(results[k][p]) = p

(* a result with an upper-case Facebook host and an Instagram link *)
C11_Witness ==
    /\ Returned
    /\ LastResult.Facebook = hFb2
    /\ LastResult.Instagram = hIg

LastProgress == progress[Len(progress)]

(* C12 (as claimed): every report naming a target is made after that       *)
(* target's crawl, its count is the number of completed targets, the       *)
(* fraction never decreases, and it eventually reaches 100%                *)
C12_ProgressAfterCompletion ==
    /\ [](/\ status_text.k <= Len(results)
          /\ \A k \in 1..Len(progress) :
                progress[k].done = k /\ progress[k].done <= Len(results))
    /\ [][ Len(progress') >= Len(progress) ]_vars
    /\ <>(progress # <<>> /\ LastProgress.done = LastProgress.total)

strip_leading(s, old) == IF s # <<>> /\ s[1] = old THEN Tail(s) ELSE s

(* the classifier as specified: only a leading "www." is removed *)
classify_leading_www(url) ==
    LET domain == strip_leading(lower(url).netloc, "www.")
        hits == { k \in 1..Len(SOCIAL_DOMAINS) : Contains(domain, SOCIAL_DOMAINS[k].domain) }
    IN  IF hits = {} THEN None
        ELSE SOCIAL_DOMAINS[CHOOSE k \in hits : \A m \in hits : k <= m].platform

(* C13 (as claimed): on every extracted link is_social_link agrees with    *)
(* the classifier that removes only a leading "www."                       *)
C13_ClassifierLeadingWwwOnly ==
    \A l \in links : is_social_link(l) = classify_leading_www(l)

LastOutcome == outcomes[Len(outcomes)]

(* the step in which a fetch returns *)
FetchReturns == pc = "await_fetch" /\ Len(outcomes') = Len(outcomes) + 1

(* C14 (as claimed): the links extracted from a fetched page are the hrefs *)
(* of a body that page can answer with, resolved against the page's URL    *)
C14_LinksResolvedAgainstPage ==
    [][ (/\ FetchReturns
         /\ ~outcomes'[Len(outcomes')].err
         /\ outcomes'[Len(outcomes')].status = HttpOk
         /\ pc' \in {"while", "for_links"}
         /\ pending' = links')
          => \E r \in Responses(site, next_url) :
                /\ ~r.err /\ r.status = HttpOk
                /\ links' = { urljoin(next_url, a) : a \in r.body.anchors } ]_vars

(* C15: a fetch that fails or answers a non-2xx status leaves findings,    *)
(* frontier, visited set and page count as they were, and the crawl is     *)
(* back at the loop test                                                   *)
C15_FailedFetchChangesNothing ==
    [][ (/\ FetchReturns
         /\ (outcomes'[Len(outcomes')].err \/ outcomes'[Len(outcomes')].status \notin 200..299))
          => /\ social_links' = social_links
             /\ to_visit' = to_visit
             /\ visited' = visited
             /\ pages_crawled' = pages_crawled
             /\ pc' = "while" ]_vars

(* after a 404 on the second page the crawl fetched a third page *)
C15_Witness ==
    /\ Len(outcomes) = 3
    /\ ~outcomes[2].err /\ outcomes[2].status = 404
    /\ ~outcomes[3].err /\ outcomes[3].status = HttpOk

StatusOf(o) == IF o.err THEN 0 ELSE o.status

(* C16: the first fetched URL is the root URL, and from the first fetch's  *)
(* return on the status code, and the result's 'Status Code', is the       *)
(* status of that fetch                                                    *)
C16_StatusOfFirstFetch ==
    /\ Len(fetched) >= 1 => fetched[1] = base_url
    /\ Len(outcomes) >= 1 => status_code = StatusOf(outcomes[1])
    /\ (Returned /\ Len(outcomes) >= 1) => LastResult.status = StatusOf(outcomes[1])

(* three fetches with three different outcomes *)
C16_Witness ==
    /\ Returned
    /\ Len(outcomes) = 3
    /\ StatusOf(outcomes[1]) = HttpOk
    /\ StatusOf(outcomes[2]) = 404
    /\ StatusOf(outcomes[3]) = 0
    /\ LastResult.status = HttpOk

InScopeHost(url) == Contains(url.netloc, base_url.netloc)

(* C17: the frontier only grows, inside the link loop, by a link being     *)
(* processed whose host contains the root's host, that is not visited, and *)
(* while it holds fewer than FrontierCap URLs; so it never holds more than *)
(* FrontierCap URLs and every fetched URL after the first is in scope      *)
C17_FrontierAdmission ==
    /\ [](/\ Cardinality(to_visit) <= FrontierCap
          /\ \A k \in 2..Len(fetched) : InScopeHost(fetched[k]))
    /\ [][ pc # "pw_loop" =>
             \A l \in to_visit' \ to_visit :
                /\ pc = "for_links"
                /\ l \in pending
                /\ InScopeHost(l)
                /\ l \notin visited
                /\ Cardinality(to_visit) < FrontierCap ]_vars

(* a page with more in-scope links than the cap: the frontier is full and  *)
(* a link was left out                                                     *)
C17_Witness ==
    /\ pc = "while"
    /\ Cardinality(to_visit) = FrontierCap
    /\ \E l \in links : InScopeHost(l) /\ l \notin visited /\ l \notin to_visit

AllFound == \A p \in Platforms : Found(p)

InCall == pc \notin {"pw_loop", "pw_done"}

(* C19 (as claimed): a call of crawl_site fetches at most max_pages times  *)
(* and eventually returns its Crawl Result to process_websites             *)
C19_CrawlReturns ==
    /\ [](Len(fetched) <= max_pages)
    /\ InCall ~> ~InCall

====
